---- MODULE Spec2Model ----
(***************************************************************************)
(* Model of html5lib-tests-bench: the `.dat` fixture parser                *)
(* (html5lib_dat.py), the tree normalizer (cli.py), the byte decoding of   *)
(* fixture files, the browser harness (harness.py) and the orchestrator    *)
(* `main` (cli.py).                                                        *)
(*                                                                         *)
(* Text is modelled at character level: a Python str is a sequence of      *)
(* codepoints (integers), a bytes object a sequence of integers 0..255.    *)
(* Python's None is the value None below, which is no string because -1 is *)
(* no codepoint.  An Optional[Html5libDatTest] is a sequence of zero or    *)
(* one test records.                                                       *)
(***************************************************************************)
EXTENDS Integers, Sequences, FiniteSets, TLC

VARIABLES
    fixture,    \* parser input as the list of its lines (without terminators)
    text,       \* parser input: the str handed to parse_html5lib_dat_text
    tests,      \* parser output: the returned list of Html5libDatTest
    ppc,        \* parse_html5lib_dat_text: "start" before the call, "done" after it
    file_data,  \* parse_html5lib_dat_file: `data`, the bytes read from the path
    dpc,        \* parse_html5lib_dat_file: "start", then "done" or "raised"
    t_expected_tree,    \* comparison: t.expected_tree
    r_tree,     \* comparison: r.tree
    expected,   \* comparison: the normalized expected tree
    actual,     \* comparison: the normalized actual tree
    outcome,    \* comparison: rec["outcome"]
    renormalized,   \* the normalizer applied to `expected` once more
    npc,        \* comparison: "start", "compared", "renormalized"
    ns,         \* main: the parsed command line
    browsers,   \* main: the selected backends, in order
    playwright_version, \* main: version of the automation library, "" if unknown
    limit,      \* main: int(ns.max_tests or 0)
    results,    \* main: the list of result records
    summary,    \* main: per backend, the counters pass, fail, error, skip
    browser_versions,       \* main: backend -> version string
    browser_launch_errors,  \* main: backend -> message of the launch error
    bi,         \* main: position of `for browser in browsers` (1-based)
    out_obj,    \* main: the report object
    json_file,  \* the documents written to ns.json_out: none or one
    exit_code,  \* the values returned by main: none while it runs, then one
    rpc,        \* main: "start", "loop", "done", "raised"
    harnesses,  \* every BrowserHarness main constructed, as main left it
    calls,      \* every run_document/run_fragment call main made
    h,          \* harness under a client: the BrowserHarness object
    hpc,        \* harness under a client: "new", "entered", "exited", "failed"
    last        \* harness under a client: what the last finished call gave its caller

parseVars == <<fixture, text, tests, ppc>>
fileVars == <<file_data, dpc>>
compareVars == <<t_expected_tree, r_tree, expected, actual, outcome, renormalized, npc>>

runVars ==
    <<ns, browsers, playwright_version, limit, results, summary, browser_versions,
      browser_launch_errors, bi, out_obj, json_file, exit_code, rpc, harnesses, calls>>
harnessVars == <<h, hpc, last>>

vars == <<parseVars, fileVars, compareVars, runVars, harnessVars>>

\* ------------------------------------------------------------------------
\* Bounds of the model
\* ------------------------------------------------------------------------
MaxLines == 5        \* lines of a fixture text
MaxChunks == 4       \* byte chunks of a fixture file
MaxTreeLen == 3      \* characters of a tree text

\* ------------------------------------------------------------------------
\* Python str primitives
\* ------------------------------------------------------------------------
None == <<-1>>

NL == 10
HASH == 35

\* str.isspace(): the characters str.strip()/str.rstrip() remove
Whitespace ==
    {9, 10, 11, 12, 13, 28, 29, 30, 31, 32, 133, 160, 5760, 8232, 8233, 8239, 8287, 12288}
        \cup (8192..8202)

\* the line boundaries of str.splitlines()
LineBreaks == {10, 11, 12, 13, 28, 29, 30, 133, 8232, 8233}

\* str.lower() on one character (ASCII and Latin-1 letters)
LowerChar(c) ==
    IF c \in 65..90 THEN c + 32
    ELSE IF c \in 192..222 /\ c # 215 THEN c + 32
    ELSE c

lower(s) == [i \in 1..Len(s) |-> LowerChar(s[i])]

RECURSIVE LStripSet(_, _)
LStripSet(s, chars) ==
    IF s # <<>> /\ Head(s) \in chars THEN LStripSet(Tail(s), chars) ELSE s

RECURSIVE RStripSet(_, _)
RStripSet(s, chars) ==
    IF s # <<>> /\ s[Len(s)] \in chars THEN RStripSet(SubSeq(s, 1, Len(s) - 1), chars) ELSE s

\* s.strip(), s.rstrip(), s.strip("\n"), s.rstrip("\n")
strip(s) == RStripSet(LStripSet(s, Whitespace), Whitespace)
rstrip(s) == RStripSet(s, Whitespace)
strip_nl(s) == RStripSet(LStripSet(s, {NL}), {NL})
rstrip_nl(s) == RStripSet(s, {NL})

startswith(s, prefix) ==
    Len(s) >= Len(prefix) /\ SubSeq(s, 1, Len(prefix)) = prefix

\* s.splitlines(): "\r\n" is one boundary, no empty last line after a
\* final boundary
RECURSIVE SplitFrom(_, _, _)
SplitFrom(s, start, i) ==
    IF i > Len(s)
    THEN IF start <= Len(s) THEN <<SubSeq(s, start, Len(s))>> ELSE <<>>
    ELSE IF s[i] \in LineBreaks
    THEN LET next == IF s[i] = 13 /\ i < Len(s) /\ s[i + 1] = 10 THEN i + 2 ELSE i + 1
         IN  <<SubSeq(s, start, i - 1)>> \o SplitFrom(s, next, next)
    ELSE SplitFrom(s, start, i + 1)

splitlines(s) == SplitFrom(s, 1, 1)

\* "\n".join(parts)
RECURSIVE join(_)
join(parts) ==
    IF parts = <<>> THEN <<>>
    ELSE IF Len(parts) = 1 THEN parts[1]
    ELSE parts[1] \o <<NL>> \o join(Tail(parts))

\* ------------------------------------------------------------------------
\* String literals of html5lib_dat.py
\* ------------------------------------------------------------------------
K_script_on == <<115, 99, 114, 105, 112, 116, 45, 111, 110>>           \* "script-on"
K_script_off == <<115, 99, 114, 105, 112, 116, 45, 111, 102, 102>>     \* "script-off"
K_data == <<100, 97, 116, 97>>                                         \* "data"
K_document == <<100, 111, 99, 117, 109, 101, 110, 116>>                \* "document"
K_document_fragment ==                                                 \* "document-fragment"
    <<100, 111, 99, 117, 109, 101, 110, 116, 45, 102, 114, 97, 103, 109, 101, 110, 116>>

\* ------------------------------------------------------------------------
\* _finalize_test (the leading underscore is dropped)
\* ------------------------------------------------------------------------
Html5libDatTest(source_file, index, data, expected_tree, fragment_context, scripting_enabled) ==
    [source_file |-> source_file,
     index |-> index,
     data |-> data,
     expected_tree |-> expected_tree,
     fragment_context |-> fragment_context,
     scripting_enabled |-> scripting_enabled]

\* faulty variant: an empty #data block is taken for "no test"
finalize_test_skip_empty(source_file, index, saw_data, data_lines, document_lines, fragment_lines, scripting_enabled) ==
    IF ~saw_data \/ data_lines = <<>> THEN <<>>
    ELSE
        LET stripped == IF fragment_lines # <<>> THEN strip(fragment_lines[1]) ELSE <<>>
            expected_tree_lines ==
                IF document_lines # <<>> THEN document_lines ELSE Tail(fragment_lines)
        IN  <<Html5libDatTest(source_file, index, join(data_lines),
                IF fragment_lines # <<>>
                THEN IF expected_tree_lines # <<>>
                     THEN strip_nl(join(expected_tree_lines)) ELSE <<>>
                ELSE IF document_lines # <<>> THEN strip_nl(join(document_lines)) ELSE None,
                IF fragment_lines # <<>> /\ stripped # <<>> THEN stripped ELSE None,
                scripting_enabled)>>

\* faulty variant: a fragment case takes its expected tree from the
\* #document-fragment block only
finalize_test_fragment_only(source_file, index, saw_data, data_lines, document_lines, fragment_lines, scripting_enabled) ==
    IF ~saw_data THEN <<>>
    ELSE
        LET stripped == IF fragment_lines # <<>> THEN strip(fragment_lines[1]) ELSE <<>>
            expected_tree_lines == Tail(fragment_lines)
        IN  <<Html5libDatTest(source_file, index, join(data_lines),
                IF fragment_lines # <<>>
                THEN IF expected_tree_lines # <<>>
                     THEN strip_nl(join(expected_tree_lines)) ELSE <<>>
                ELSE IF document_lines # <<>> THEN strip_nl(join(document_lines)) ELSE None,
                IF fragment_lines # <<>> /\ stripped # <<>> THEN stripped ELSE None,
                scripting_enabled)>>

\* faulty variant: a fragment case without tree lines gets no expected tree
finalize_test_tree_absent(source_file, index, saw_data, data_lines, document_lines, fragment_lines, scripting_enabled) ==
    IF ~saw_data THEN <<>>
    ELSE
        LET stripped == IF fragment_lines # <<>> THEN strip(fragment_lines[1]) ELSE <<>>
            expected_tree_lines ==
                IF document_lines # <<>> THEN document_lines ELSE Tail(fragment_lines)
        IN  <<Html5libDatTest(source_file, index, join(data_lines),
                IF fragment_lines # <<>>
                THEN IF expected_tree_lines # <<>>
                     THEN strip_nl(join(expected_tree_lines)) ELSE None
                ELSE IF document_lines # <<>> THEN strip_nl(join(document_lines)) ELSE None,
                IF fragment_lines # <<>> /\ stripped # <<>> THEN stripped ELSE None,
                scripting_enabled)>>

finalize_test(source_file, index, saw_data, data_lines, document_lines, fragment_lines, scripting_enabled) ==
    IF ~saw_data THEN <<>>
    ELSE
        LET data == join(data_lines)
            stripped == IF fragment_lines # <<>> THEN strip(fragment_lines[1]) ELSE <<>>
            fragment_context ==
                IF fragment_lines # <<>> /\ stripped # <<>> THEN stripped ELSE None
            expected_tree_lines ==
                IF document_lines # <<>> THEN document_lines ELSE Tail(fragment_lines)
            expected_tree ==
                IF fragment_lines # <<>>
                THEN IF expected_tree_lines # <<>>
                     THEN strip_nl(join(expected_tree_lines))
                     ELSE <<>>
                ELSE IF document_lines # <<>>
                THEN strip_nl(join(document_lines))
                ELSE None
        IN  <<Html5libDatTest(source_file, index, data, expected_tree, fragment_context,
                              scripting_enabled)>>

\* ------------------------------------------------------------------------
\* parse_html5lib_dat_text: the locals of the function as one record
\* ------------------------------------------------------------------------
ParserInit ==
    [tests |-> <<>>,
     section |-> None,
     saw_data |-> FALSE,
     data_lines |-> <<>>,
     document_lines |-> <<>>,
     fragment_lines |-> <<>>,
     test_index |-> 0,
     default_scripting_enabled |-> FALSE,
     current_test_scripting_enabled |-> FALSE]

\* faulty variant: the running index is not advanced
flush_no_increment(st, source_file) ==
    LET t == finalize_test(source_file, st.test_index, st.saw_data, st.data_lines,
                            st.document_lines, st.fragment_lines,
                            st.current_test_scripting_enabled)
    IN  [st EXCEPT !.tests = st.tests \o t,
                   !.saw_data = FALSE,
                   !.data_lines = <<>>,
                   !.document_lines = <<>>,
                   !.fragment_lines = <<>>]

flush(st, source_file) ==
    LET t == finalize_test(source_file, st.test_index, st.saw_data, st.data_lines,
                            st.document_lines, st.fragment_lines,
                            st.current_test_scripting_enabled)
    IN  [st EXCEPT !.tests = st.tests \o t,
                   !.test_index = st.test_index + Len(t),
                   !.saw_data = FALSE,
                   !.data_lines = <<>>,
                   !.document_lines = <<>>,
                   !.fragment_lines = <<>>]

\* faulty variant: the key is not lowercased
MarkerKey_no_lower(line) == strip(Tail(line))

\* key = line[1:].strip().lower()
MarkerKey(line) == lower(strip(Tail(line)))

\* faulty variant: a script marker never sets the default
OnScript_current_only(st, value) ==
    [st EXCEPT !.current_test_scripting_enabled = value, !.section = None]

\* the branches `key == "script-on"` and `key == "script-off"`
OnScript(st, value) ==
    IF st.data_lines # <<>>
    THEN [st EXCEPT !.current_test_scripting_enabled = value, !.section = None]
    ELSE [st EXCEPT !.default_scripting_enabled = value, !.section = None]

\* the branch `key == "data"`
OnData(st, source_file) ==
    LET flushed == IF st.saw_data THEN flush(st, source_file) ELSE st
    IN  [flushed EXCEPT !.current_test_scripting_enabled = flushed.default_scripting_enabled,
                        !.saw_data = TRUE,
                        !.section = K_data]

\* a line that is no marker: appended to the open section's buffer
OnContent(st, line) ==
    IF st.section = K_data THEN [st EXCEPT !.data_lines = Append(st.data_lines, line)]
    ELSE IF st.section = K_document
    THEN [st EXCEPT !.document_lines = Append(st.document_lines, line)]
    ELSE IF st.section = K_document_fragment
    THEN [st EXCEPT !.fragment_lines = Append(st.fragment_lines, line)]
    ELSE st

\* one iteration of `for raw in text.splitlines()`
ParseLine(st, raw, source_file) ==
    LET line == rstrip_nl(raw)
        key == MarkerKey(line)
    IN  IF startswith(line, <<HASH>>)
        THEN IF key = K_script_on THEN OnScript(st, TRUE)
             ELSE IF key = K_script_off THEN OnScript(st, FALSE)
             ELSE IF key = K_data THEN OnData(st, source_file)
             ELSE IF key \in {K_document, K_document_fragment}
             THEN [st EXCEPT !.section = key]
             ELSE [st EXCEPT !.section = None]
        ELSE OnContent(st, line)

RECURSIVE ParseLines(_, _, _, _)
ParseLines(st, lines, i, source_file) ==
    IF i > Len(lines) THEN st
    ELSE ParseLines(ParseLine(st, lines[i], source_file), lines, i + 1, source_file)

parse_html5lib_dat_text(txt, source_file) ==
    flush(ParseLines(ParserInit, splitlines(txt), 1, source_file), source_file).tests

\* ------------------------------------------------------------------------
\* Fixture inputs
\* ------------------------------------------------------------------------
L_data == <<35, 100, 97, 116, 97>>                                     \* "#data"
L_Data_sp == <<35, 68, 97, 116, 97, 32>>                               \* "#Data "
L_document == <<35, 100, 111, 99, 117, 109, 101, 110, 116>>            \* "#document"
L_document_fragment ==                                                 \* "#document-fragment"
    <<35, 100, 111, 99, 117, 109, 101, 110, 116, 45, 102, 114, 97, 103, 109, 101, 110, 116>>
L_script_on == <<35, 115, 99, 114, 105, 112, 116, 45, 111, 110>>       \* "#script-on"
L_script_off == <<35, 115, 99, 114, 105, 112, 116, 45, 111, 102, 102>> \* "#script-off"
L_errors == <<35, 101, 114, 114, 111, 114, 115>>                       \* "#errors"
L_div == <<32, 100, 105, 118>>                                         \* " div"
L_empty == <<>>                                                        \* ""

FixtureLines ==
    {L_data, L_Data_sp, L_document, L_document_fragment, L_script_on, L_script_off,
     L_errors, L_div, L_empty}

Fixtures == UNION {[1..n -> FixtureLines] : n \in 0..MaxLines}

\* the fixture file's text: every line followed by "\n"
RECURSIVE TextOf(_)
TextOf(lines) ==
    IF lines = <<>> THEN <<>> ELSE lines[1] \o <<NL>> \o TextOf(Tail(lines))

MEMORY == "<memory>"

\* ------------------------------------------------------------------------
\* Specification of the parser
\* ------------------------------------------------------------------------
FileIdle == file_data = <<>> /\ dpc = "idle"

CompareIdle ==
    /\ t_expected_tree = <<>>
    /\ r_tree = <<>>
    /\ expected = <<>>
    /\ actual = <<>>
    /\ outcome = "none"
    /\ renormalized = <<>>
    /\ npc = "idle"

ParseIdle == fixture = <<>> /\ text = <<>> /\ tests = <<>> /\ ppc = "idle"

RunIdle ==
    /\ ns = <<>>
    /\ browsers = <<>>
    /\ playwright_version = ""
    /\ limit = 0
    /\ results = <<>>
    /\ summary = <<>>
    /\ browser_versions = <<>>
    /\ browser_launch_errors = <<>>
    /\ bi = 0
    /\ out_obj = <<>>
    /\ json_file = <<>>
    /\ exit_code = <<>>
    /\ rpc = "idle"
    /\ harnesses = <<>>
    /\ calls = <<>>

HarnessIdle == h = <<>> /\ hpc = "idle" /\ last = <<>>

InitParse ==
    /\ fixture \in Fixtures
    /\ text = TextOf(fixture)
    /\ tests = <<>>
    /\ ppc = "start"
    /\ FileIdle
    /\ CompareIdle
    /\ RunIdle
    /\ HarnessIdle

Parse ==
    /\ ppc = "start"
    /\ tests' = parse_html5lib_dat_text(text, MEMORY)
    /\ ppc' = "done"
    /\ UNCHANGED <<fixture, text, fileVars, compareVars, runVars, harnessVars>>

NextParse == Parse

SpecParse == InitParse /\ [][NextParse]_vars

\* ------------------------------------------------------------------------
\* The fixture as the claims describe it: marker lines, the cases' blocks
\* ------------------------------------------------------------------------
DataMarkerLines == {L_data, L_Data_sp}
ScriptOnLines == {L_script_on}
ScriptOffLines == {L_script_off}
ScriptMarkerLines == ScriptOnLines \cup ScriptOffLines
ContentLines == {L_div, L_empty}

DataPos == {i \in 1..Len(fixture) : fixture[i] \in DataMarkerLines}
NumData == Cardinality(DataPos)

\* the line number of the k-th #data marker, 1 <= k <= NumData
KthData(k) == CHOOSE i \in DataPos : Cardinality({j \in DataPos : j <= i}) = k

\* the last line of the k-th case: the line before the next #data marker
SegEnd(k) == IF k < NumData THEN KthData(k + 1) - 1 ELSE Len(fixture)

\* the marker line that governs content line i (0: none)
MarkerBefore(i) ==
    LET ms == {j \in 1..(i - 1) : fixture[j] \notin ContentLines}
    IN  IF ms = {} THEN 0 ELSE CHOOSE j \in ms : \A m \in ms : m <= j

RECURSIVE BlockFrom(_, _, _)
BlockFrom(i, hi, markers) ==
    IF i > hi THEN <<>>
    ELSE IF /\ fixture[i] \in ContentLines
            /\ MarkerBefore(i) # 0
            /\ fixture[MarkerBefore(i)] \in markers
    THEN <<fixture[i]>> \o BlockFrom(i + 1, hi, markers)
    ELSE BlockFrom(i + 1, hi, markers)

\* the first line the k-th case collects from: the parser empties its buffers
\* only when it finalizes a case, so the first case also holds the #document
\* and #document-fragment lines that stand before its #data marker
SegStart(k) == IF k = 1 THEN 1 ELSE KthData(k) + 1

\* the content lines of the k-th case that stand under a marker of `markers`
BlockOf(k, markers) == BlockFrom(SegStart(k), SegEnd(k), markers)

DataBlock(k) == BlockOf(k, DataMarkerLines)
DocumentBlock(k) == BlockOf(k, {L_document})
FragmentBlock(k) == BlockOf(k, {L_document_fragment})

\* script markers before the first #data marker, and inside the k-th case
FirstData == IF NumData = 0 THEN Len(fixture) + 1 ELSE KthData(1)
PreScript == {i \in 1..(FirstData - 1) : fixture[i] \in ScriptMarkerLines}
ScriptIn(k) == {i \in KthData(k)..SegEnd(k) : fixture[i] \in ScriptMarkerLines}
LastOf(S) == CHOOSE i \in S : \A j \in S : j <= i
FlagOf(i) == fixture[i] \in ScriptOnLines
PreDataDefault == IF PreScript = {} THEN FALSE ELSE FlagOf(LastOf(PreScript))

\* ------------------------------------------------------------------------
\* Claims about the parser (checked under SpecParse)
\* ------------------------------------------------------------------------

\* C1: the returned cases carry the index values 0, 1, ..., n-1, assigned in
\* the order of the #data markers: the k-th case has index k-1 and the data
\* block of the k-th #data marker.
C1_IndexOrder ==
    ppc = "done" =>
        \A k \in 1..Len(tests) :
            /\ tests[k].index = k - 1
            /\ k <= NumData
            /\ tests[k].data = join(DataBlock(k))

C1_Witness ==
    /\ ppc = "done"
    /\ Len(tests) >= 2
    /\ tests[1].data # tests[2].data
    /\ tests[2].index = 1

\* C2: the number of returned cases equals the number of #data marker lines
\* of the fixture text (zero cases when there is no #data marker).
C2_CaseCount == ppc = "done" => Len(tests) = NumData

C2_Witness ==
    /\ ppc = "done"
    /\ NumData = 2
    /\ Len(tests) = 2
    /\ \E i \in 1..Len(fixture) : fixture[i] = L_Data_sp
    /\ \E i \in 1..Len(fixture) : fixture[i] \notin DataMarkerLines

\* C3: a #data marker immediately followed by another #data marker yields a
\* case at that position whose input markup is the empty string.
C3_EmptyData ==
    ppc = "done" =>
        \A k \in 1..(NumData - 1) :
            KthData(k + 1) = KthData(k) + 1 =>
                /\ k <= Len(tests)
                /\ tests[k].index = k - 1
                /\ tests[k].data = <<>>

C3_Witness ==
    /\ ppc = "done"
    /\ \E k \in 1..(NumData - 1) : KthData(k + 1) = KthData(k) + 1
    /\ Len(tests) >= 2
    /\ tests[1].data = <<>>

\* C4: a #script-on / #script-off marker between a case's #data marker and
\* the next #data marker sets the scripting flag of that case (also when the
\* case's data block is empty) and of no later case: a case without such a
\* marker keeps the default set before the first #data marker.
C4_OverrideOnlyThatCase ==
    ppc = "done" =>
        \A k \in 1..NumData :
            /\ k <= Len(tests)
            /\ ScriptIn(k) # {} => tests[k].scripting_enabled = FlagOf(LastOf(ScriptIn(k)))
            /\ ScriptIn(k) = {} => tests[k].scripting_enabled = PreDataDefault

\* C5: a #script-on / #script-off marker before the first #data marker sets
\* the default: the first case and every later case carry it as long as no
\* later script marker has appeared.
C5_DefaultBeforeFirstData ==
    ppc = "done" =>
        (PreScript # {} =>
            \A k \in 1..Len(tests) :
                (\A j \in 1..k : ScriptIn(j) = {}) =>
                    tests[k].scripting_enabled = PreDataDefault)

C5_Witness ==
    /\ ppc = "done"
    /\ PreScript # {}
    /\ PreDataDefault
    /\ Len(tests) >= 2
    /\ \A j \in 1..2 : ScriptIn(j) = {}
    /\ tests[1].scripting_enabled
    /\ tests[2].scripting_enabled

\* expected tree text of a block: joined, leading/trailing newlines removed
TreeOf(block) == strip_nl(join(block))
ExpectedOf(k) ==
    IF DocumentBlock(k) # <<>> THEN TreeOf(DocumentBlock(k))
    ELSE TreeOf(Tail(FragmentBlock(k)))

CasesOf(f) ==
    LET ts == parse_html5lib_dat_text(TextOf(f), MEMORY) IN {ts[k] : k \in 1..Len(ts)}

\* C7 as stated: some fixture yields a case with a fragment_context and no
\* expected_tree, and some fixture yields a case with an expected_tree and no
\* fragment_context.
C7_AsStated ==
    ppc = "done" =>
    /\ \E f \in Fixtures : \E c \in CasesOf(f) :
            c.fragment_context # None /\ c.expected_tree = None
    /\ \E f \in Fixtures : \E c \in CasesOf(f) :
            c.fragment_context = None /\ c.expected_tree # None

\* C7 amended: a case with a fragment_context always has an expected_tree
\* (possibly the empty string).
C7_ContextImpliesTree ==
    ppc = "done" =>
        \A k \in 1..Len(tests) :
            tests[k].fragment_context # None => tests[k].expected_tree # None

C7_Witness ==
    /\ ppc = "done"
    /\ \E k \in 1..Len(tests) :
        /\ tests[k].fragment_context # None
        /\ tests[k].expected_tree = <<>>

\* ------------------------------------------------------------------------
\* parse_html5lib_dat_file: decoding the bytes of a fixture file
\* ------------------------------------------------------------------------
BOM_UTF8 == <<239, 187, 191>>
BOM_UTF16_LE == <<255, 254>>
BOM_UTF16_BE == <<254, 255>>

\* the result of bytes.decode: the text, or UnicodeDecodeError raised
Decoded(t) == [ok |-> TRUE, text |-> t]
UnicodeDecodeError == [ok |-> FALSE, text |-> <<>>]

IsContinuation(b) == b \in 128..191
SecondOf3(lead) ==
    IF lead = 224 THEN 160..191 ELSE IF lead = 237 THEN 128..159 ELSE 128..191
SecondOf4(lead) ==
    IF lead = 240 THEN 144..191 ELSE IF lead = 244 THEN 128..143 ELSE 128..191

\* bytes.decode("utf-8"), strict
RECURSIVE Utf8From(_, _, _)
Utf8From(b, i, acc) ==
    IF i > Len(b) THEN Decoded(acc)
    ELSE IF b[i] < 128 THEN Utf8From(b, i + 1, Append(acc, b[i]))
    ELSE IF b[i] \in 194..223
    THEN IF i + 1 <= Len(b) /\ IsContinuation(b[i + 1])
         THEN Utf8From(b, i + 2, Append(acc, (b[i] - 192) * 64 + (b[i + 1] - 128)))
         ELSE UnicodeDecodeError
    ELSE IF b[i] \in 224..239
    THEN IF i + 2 <= Len(b) /\ b[i + 1] \in SecondOf3(b[i]) /\ IsContinuation(b[i + 2])
         THEN Utf8From(b, i + 3,
                       Append(acc, (b[i] - 224) * 4096 + (b[i + 1] - 128) * 64
                                   + (b[i + 2] - 128)))
         ELSE UnicodeDecodeError
    ELSE IF b[i] \in 240..244
    THEN IF /\ i + 3 <= Len(b)
            /\ b[i + 1] \in SecondOf4(b[i])
            /\ IsContinuation(b[i + 2])
            /\ IsContinuation(b[i + 3])
         THEN Utf8From(b, i + 4,
                       Append(acc, (b[i] - 240) * 262144 + (b[i + 1] - 128) * 4096
                                   + (b[i + 2] - 128) * 64 + (b[i + 3] - 128)))
         ELSE UnicodeDecodeError
    ELSE UnicodeDecodeError

decode_utf8(b) == Utf8From(b, 1, <<>>)

\* bytes.decode("utf-8-sig"): a leading byte-order mark is dropped
decode_utf8_sig(b) ==
    IF startswith(b, BOM_UTF8) THEN decode_utf8(SubSeq(b, 4, Len(b))) ELSE decode_utf8(b)

Unit16(b, i, little) == IF little THEN b[i] + 256 * b[i + 1] ELSE 256 * b[i] + b[i + 1]

\* the UTF-16 code units from byte i on; surrogates must come in pairs
RECURSIVE Utf16From(_, _, _, _)
Utf16From(b, i, little, acc) ==
    IF i > Len(b) THEN Decoded(acc)
    ELSE IF i = Len(b) THEN UnicodeDecodeError
    ELSE IF Unit16(b, i, little) \in 55296..56319
    THEN IF i + 3 <= Len(b) /\ Unit16(b, i + 2, little) \in 56320..57343
         THEN Utf16From(b, i + 4, little,
                        Append(acc, 65536 + (Unit16(b, i, little) - 55296) * 1024
                                    + (Unit16(b, i + 2, little) - 56320)))
         ELSE UnicodeDecodeError
    ELSE IF Unit16(b, i, little) \in 56320..57343 THEN UnicodeDecodeError
    ELSE Utf16From(b, i + 2, little, Append(acc, Unit16(b, i, little)))

\* bytes.decode("utf-16"): the byte-order mark selects the byte order and is
\* dropped (without a mark the codec takes the machine's order, little-endian
\* here; parse_html5lib_dat_file calls it only on bytes that start with a mark)
decode_utf16(b) ==
    IF startswith(b, BOM_UTF16_LE) THEN Utf16From(b, 3, TRUE, <<>>)
    ELSE IF startswith(b, BOM_UTF16_BE) THEN Utf16From(b, 3, FALSE, <<>>)
    ELSE Utf16From(b, 1, TRUE, <<>>)

\* bytes.decode("latin-1"): every byte is the codepoint of the same value
decode_latin1(b) == b

\* faulty variant: no single-byte fallback
decode_file_data_strict(b) ==
    IF startswith(b, BOM_UTF8) THEN decode_utf8_sig(b)
    ELSE IF startswith(b, BOM_UTF16_LE) \/ startswith(b, BOM_UTF16_BE) THEN decode_utf16(b)
    ELSE decode_utf8(b)

\* the decoding policy of parse_html5lib_dat_file
decode_file_data(b) ==
    IF startswith(b, BOM_UTF8) THEN decode_utf8_sig(b)
    ELSE IF startswith(b, BOM_UTF16_LE) \/ startswith(b, BOM_UTF16_BE) THEN decode_utf16(b)
    ELSE IF decode_utf8(b).ok THEN decode_utf8(b)
    ELSE Decoded(decode_latin1(b))

\* the file contents: chunks of bytes, "#data\n" and single bytes
B_data_nl == <<35, 100, 97, 116, 97, 10>>
ByteChunks ==
    {B_data_nl, <<65>>, <<254>>, <<255>>, <<239>>, <<187>>, <<191>>, <<195>>, <<169>>,
     <<216>>, <<220>>}

RECURSIVE Flatten(_)
Flatten(chunks) == IF chunks = <<>> THEN <<>> ELSE Head(chunks) \o Flatten(Tail(chunks))

FileContents == {Flatten(cs) : cs \in UNION {[1..n -> ByteChunks] : n \in 0..MaxChunks}}

\* str(p), the path of the fixture file
PATH == "encoding.dat"

InitFile ==
    /\ file_data \in FileContents
    /\ dpc = "start"
    /\ fixture = <<>>
    /\ text = <<>>
    /\ tests = <<>>
    /\ ppc = "idle"
    /\ CompareIdle
    /\ RunIdle
    /\ HarnessIdle

\* parse_html5lib_dat_file returns the cases of the decoded text
ParseFile ==
    /\ dpc = "start"
    /\ decode_file_data(file_data).ok
    /\ text' = decode_file_data(file_data).text
    /\ tests' = parse_html5lib_dat_text(decode_file_data(file_data).text, PATH)
    /\ dpc' = "done"
    /\ UNCHANGED <<fixture, ppc, file_data, compareVars, runVars, harnessVars>>

\* parse_html5lib_dat_file lets the UnicodeDecodeError of the decoding escape
ParseFileRaises ==
    /\ dpc = "start"
    /\ ~decode_file_data(file_data).ok
    /\ dpc' = "raised"
    /\ UNCHANGED <<parseVars, file_data, compareVars, runVars, harnessVars>>

NextFile == ParseFile \/ ParseFileRaises

SpecFile == InitFile /\ [][NextFile]_vars

\* ------------------------------------------------------------------------
\* cli.py: _normalize_expected_tree and the comparison of main
\* ------------------------------------------------------------------------

\* "\n".join(line.rstrip() for line in s.strip("\n").splitlines())
normalize_expected_tree(s) ==
    LET lines == splitlines(strip_nl(s))
    IN  join([i \in 1..Len(lines) |-> rstrip(lines[i])])

\* rec["outcome"] of a compared case
CompareOutcome(exp, act) == IF act = exp THEN "pass" ELSE "fail"

\* characters of the tree texts: "a", " ", "\n", "\r"
TreeChars == {97, 32, 10, 13}
TreeTexts == UNION {[1..n -> TreeChars] : n \in 0..MaxTreeLen}

InitCompare ==
    /\ t_expected_tree \in TreeTexts
    /\ r_tree \in TreeTexts
    /\ expected = <<>>
    /\ actual = <<>>
    /\ outcome = "none"
    /\ renormalized = <<>>
    /\ npc = "start"
    /\ ParseIdle
    /\ FileIdle
    /\ RunIdle
    /\ HarnessIdle

\* main: the comparison of a case that has an expected tree
CompareTrees ==
    /\ npc = "start"
    /\ expected' = normalize_expected_tree(t_expected_tree)
    /\ actual' = normalize_expected_tree(r_tree)
    /\ outcome' = CompareOutcome(normalize_expected_tree(t_expected_tree),
                                 normalize_expected_tree(r_tree))
    /\ npc' = "compared"
    /\ UNCHANGED <<t_expected_tree, r_tree, renormalized, parseVars, fileVars, runVars, harnessVars>>

\* the normalizer applied to its own result
Renormalize ==
    /\ npc = "compared"
    /\ renormalized' = normalize_expected_tree(expected)
    /\ npc' = "renormalized"
    /\ UNCHANGED <<t_expected_tree, r_tree, expected, actual, outcome, parseVars, fileVars, runVars, harnessVars>>

NextCompare == CompareTrees \/ Renormalize

SpecCompare == InitCompare /\ [][NextCompare]_vars

\* ------------------------------------------------------------------------
\* Claims about the normalizer (checked under SpecCompare)
\* ------------------------------------------------------------------------

\* C8: tree normalization is idempotent: normalizing the normalized form of
\* a text gives the normalized form again.
C8_Idempotent == npc = "renormalized" => renormalized = expected

\* s.split("\n"): the lines of a text, "\n" being the only separator
RECURSIVE PlainLinesFrom(_, _, _)
PlainLinesFrom(s, start, i) ==
    IF i > Len(s) THEN <<SubSeq(s, start, Len(s))>>
    ELSE IF s[i] = NL THEN <<SubSeq(s, start, i - 1)>> \o PlainLinesFrom(s, i + 1, i + 1)
    ELSE PlainLinesFrom(s, start, i + 1)

RECURSIVE DropLeadingBlank(_)
DropLeadingBlank(ls) ==
    IF ls # <<>> /\ Head(ls) = <<>> THEN DropLeadingBlank(Tail(ls)) ELSE ls

RECURSIVE DropTrailingBlank(_)
DropTrailingBlank(ls) ==
    IF ls # <<>> /\ ls[Len(ls)] = <<>> THEN DropTrailingBlank(SubSeq(ls, 1, Len(ls) - 1))
    ELSE ls

\* a text without the trailing whitespace of its lines and without its
\* leading and trailing blank lines
Essence(s) ==
    LET ls == PlainLinesFrom(s, 1, 1)
    IN  DropTrailingBlank(DropLeadingBlank([i \in 1..Len(ls) |-> rstrip(ls[i])]))

\* two texts that differ only in trailing whitespace on lines and in leading
\* or trailing blank lines
SameUpToBlanks(a, b) == Essence(a) = Essence(b)

\* C9: two tree texts that are identical except for trailing whitespace on
\* lines and for leading or trailing blank lines have the same normalized
\* form, so that their comparison gives outcome pass.
C9_BlankInsensitive ==
    (npc # "start" /\ npc # "idle" /\ SameUpToBlanks(t_expected_tree, r_tree)) =>
        (expected = actual /\ outcome = "pass")

\* ------------------------------------------------------------------------
\* Claims about the decoding of fixture files (checked under SpecFile)
\* ------------------------------------------------------------------------
HasByteOrderMark(b) ==
    startswith(b, BOM_UTF8) \/ startswith(b, BOM_UTF16_LE) \/ startswith(b, BOM_UTF16_BE)

\* C10 as stated: every byte sequence that is not valid UTF-8 is decoded
\* without raising, byte by byte into the codepoints of the same value.
C10_AsStated ==
    (dpc # "start" /\ dpc # "idle" /\ ~decode_utf8(file_data).ok) =>
        (dpc = "done" /\ text = file_data)

\* C10 amended: every byte sequence that does not start with a UTF-8 or
\* UTF-16 byte-order mark and is not valid UTF-8 is decoded without raising,
\* byte by byte into the codepoints of the same value, and parsed.
C10_Fallback ==
    (dpc # "start" /\ dpc # "idle" /\ ~HasByteOrderMark(file_data)
        /\ ~decode_utf8(file_data).ok) =>
        /\ dpc = "done"
        /\ text = file_data
        /\ tests = parse_html5lib_dat_text(file_data, PATH)

C10_Witness ==
    /\ dpc = "done"
    /\ file_data = B_data_nl \o <<254>>
    /\ ~decode_utf8(file_data).ok
    /\ Len(tests) = 1
    /\ tests[1].data = <<254>>

\* ------------------------------------------------------------------------
\* harness.py: BrowserHarness
\*
\* The browser-automation library and the browsers are the environment:
\* whether a step of the launch or of the shutdown raises, what an
\* evaluation returns and which URLs the page requests while it runs are
\* choices of the environment.  A raised exception is a record of its type
\* name and message, NoExc stands for "nothing raised".
\* ------------------------------------------------------------------------
NoExc == [type |-> "", message |-> ""]
Exc(type, message) == [type |-> type, message |-> message]
Raised(exc) == exc # NoExc

K_http == <<104, 116, 116, 112, 58, 47, 47>>            \* "http://"
K_https == <<104, 116, 116, 112, 115, 58, 47, 47>>      \* "https://"

\* the names an instance of BrowserHarness resolves: the methods of the
\* class and the attributes __init__ assigns
BrowserHarnessAttributes ==
    {"__enter__", "__exit__", "run_document", "run_fragment", "_browser_name", "_headless",
     "_pw_cm", "_pw", "_browser_instance", "_page", "_timeout_error", "_current_html",
     "_base_url", "_external_network_requests"}

\* the keyword-only parameters of run_document and of run_fragment
run_document_params == {"html"}
run_fragment_params == {"fragment_context", "html"}

\* BrowserHarness.__init__: nothing is acquired yet.  pw_cm is "none",
\* "created" (sync_playwright() returned), "entered" (the driver runs) or
\* "exited"; browser_instance is "none", "open" or "closed".
BrowserHarness(browser) ==
    [browser_name |-> browser,
     pw_cm |-> "none",
     browser_instance |-> "none",
     page |-> "none",
     external_network_requests |-> <<>>]

\* the step of __enter__ the environment lets fail, "ok" for none
LaunchOutcomes ==
    {"import_fails", "start_fails", "launch_fails", "new_page_fails", "set_content_fails", "ok"}

\* BrowserHarness.__enter__: the object as the call leaves it, and the
\* exception it raised
harness_enter(self, launch) ==
    IF launch = "import_fails"
    THEN [self |-> self,
          exc |-> Exc("RuntimeError",
                      "Playwright is not installed. Install with: pip install -e '.[test]'")]
    ELSE IF launch = "start_fails"
    THEN [self |-> [self EXCEPT !.pw_cm = "created"], exc |-> Exc("Error", "driver")]
    ELSE IF launch = "launch_fails"
    THEN [self |-> [self EXCEPT !.pw_cm = "entered"], exc |-> Exc("Error", "launch")]
    ELSE IF launch = "new_page_fails"
    THEN [self |-> [self EXCEPT !.pw_cm = "entered", !.browser_instance = "open"],
          exc |-> Exc("Error", "new_page")]
    ELSE IF launch = "set_content_fails"
    THEN [self |-> [self EXCEPT !.pw_cm = "entered", !.browser_instance = "open",
                                !.page = "page"],
          exc |-> Exc("TimeoutError", "set_content")]
    ELSE [self |-> [self EXCEPT !.pw_cm = "entered", !.browser_instance = "open",
                                !.page = "page"],
          exc |-> NoExc]

\* the step of __exit__ the environment lets fail, "ok" for none
ExitOutcomes == {"close_fails", "stop_fails", "ok"}

\* BrowserHarness.__exit__: close the browser if there is one, then (in the
\* finally clause) leave the library's context if there is one; it returns
\* None, so an exception of the with body is not suppressed
harness_exit(self, shut) ==
    LET closing == self.browser_instance # "none"
        closed == IF closing /\ shut # "close_fails"
                  THEN [self EXCEPT !.browser_instance = "closed"] ELSE self
        exc1 == IF closing /\ shut = "close_fails" THEN Exc("Error", "close") ELSE NoExc
        stopping == self.pw_cm # "none"
        stopped == IF stopping /\ shut # "stop_fails"
                   THEN [closed EXCEPT !.pw_cm = "exited"] ELSE closed
        exc2 == IF stopping /\ shut = "stop_fails" THEN Exc("Error", "stop") ELSE exc1
    IN  [self |-> stopped, exc |-> exc2]

\* faulty variant: only "https://" requests are recorded and aborted
route_https_only(self, url) ==
    IF startswith(url, K_https)
    THEN [self |-> [self EXCEPT !.external_network_requests = Append(@, url)],
          verdict |-> "abort"]
    ELSE [self |-> self, verdict |-> "continue"]

\* _route: a request whose URL starts with "http://" or "https://" is
\* recorded and aborted, every other request continues
route(self, url) ==
    IF startswith(url, K_http) \/ startswith(url, K_https)
    THEN [self |-> [self EXCEPT !.external_network_requests = Append(@, url)],
          verdict |-> "abort"]
    ELSE [self |-> self, verdict |-> "continue"]

\* the requests of one evaluation, routed in the order the page makes them
RECURSIVE RouteAll(_, _, _)
RouteAll(self, urls, verdicts) ==
    IF urls = <<>> THEN [self |-> self, verdicts |-> verdicts]
    ELSE RouteAll(route(self, Head(urls)).self, Tail(urls),
                  Append(verdicts, route(self, Head(urls)).verdict))

\* BrowserResult(tree, external_requests)
BrowserResult(tree, external_requests) ==
    [tree |-> tree, external_requests |-> external_requests]

\* str(value or ""): a value of None (null, undefined) gives ""
str_or_empty(value) == IF value = None THEN <<>> ELSE value

\* the body shared by run_document and run_fragment after the call was
\* accepted: ev is the behaviour of the page for this evaluation, the URLs
\* it requests (fetches), whether the evaluation raises and the value it
\* returns
run_evaluate(self, ev) ==
    IF self.page = "none"
    THEN [self |-> self, exc |-> Exc("RuntimeError", "Harness not initialized"),
          result |-> None, verdicts |-> <<>>]
    ELSE LET cleared == [self EXCEPT !.external_network_requests = <<>>]
             routed == RouteAll(cleared, ev.fetches, <<>>)
         IN  IF ev.raises
             THEN [self |-> routed.self, exc |-> Exc("Error", "evaluate"),
                   result |-> None, verdicts |-> routed.verdicts]
             ELSE [self |-> routed.self, exc |-> NoExc,
                   result |-> BrowserResult(str_or_empty(ev.value),
                                            routed.self.external_network_requests),
                   verdicts |-> routed.verdicts]

\* a call with keyword arguments other than the parameters raises TypeError
\* before the body runs
run_document(self, kwargs, ev) ==
    IF DOMAIN kwargs # run_document_params
    THEN [self |-> self, exc |-> Exc("TypeError", "run_document() keyword arguments"),
          result |-> None, verdicts |-> <<>>]
    ELSE run_evaluate(self, ev)

run_fragment(self, kwargs, ev) ==
    IF DOMAIN kwargs # run_fragment_params
    THEN [self |-> self, exc |-> Exc("TypeError", "run_fragment() keyword arguments"),
          result |-> None, verdicts |-> <<>>]
    ELSE run_evaluate(self, ev)

\* ------------------------------------------------------------------------
\* cli.py: the helpers of main
\* ------------------------------------------------------------------------
browsers_from_arg(arg) ==
    IF arg = "all" THEN <<"chromium", "firefox", "webkit">> ELSE <<arg>>

\* the fixture files of the runs: path -> bytes
F_a == <<97>>                                           \* "a"
F_div == <<100, 105, 118>>                              \* "div"
Files ==
    [empty_dat |-> <<>>,
     doc_dat |-> TextOf(<<L_data, F_a, L_document, F_a>>),
     notree_dat |-> TextOf(<<L_data, F_a>>),
     frag_dat |-> TextOf(<<L_data, F_a, L_document_fragment, F_div, L_document, F_a>>),
     script_dat |-> TextOf(<<L_data, F_a, L_script_on, L_document, F_a>>),
     bad_dat |-> BOM_UTF16_LE \o <<65>>]

\* parse_html5lib_dat_file(path): ok is FALSE when the decoding raises
parse_html5lib_dat_file(path) ==
    LET decoded == decode_file_data(Files[path])
    IN  IF decoded.ok
        THEN [ok |-> TRUE, tests |-> parse_html5lib_dat_text(decoded.text, path)]
        ELSE [ok |-> FALSE, tests |-> <<>>]

\* _load_tests: the cases of the paths, in the order of the paths
RECURSIVE load_tests(_)
load_tests(paths) ==
    IF paths = <<>> THEN [ok |-> TRUE, tests |-> <<>>]
    ELSE LET first == parse_html5lib_dat_file(Head(paths))
             rest == load_tests(Tail(paths))
         IN  IF first.ok /\ rest.ok
             THEN [ok |-> TRUE, tests |-> first.tests \o rest.tests]
             ELSE [ok |-> FALSE, tests |-> <<>>]

\* f"{type(exc).__name__}: {exc}"
format_exc(exc) == exc.type \o ": " \o exc.message

\* d[k] = v on a dict
Put(d, k, v) == [x \in DOMAIN d \cup {k} |-> IF x = k THEN v ELSE d[x]]

\* d.setdefault(k, v)
setdefault(d, k, v) == IF k \in DOMAIN d THEN d ELSE Put(d, k, v)

ZeroCounts == [pass |-> 0, fail |-> 0, error |-> 0, skip |-> 0]

\* faulty variant: the counter grows by two
Bump_twice(counts, key) == [counts EXCEPT ![key] = @ + 2]

\* summary[browser][key] += 1
Bump(counts, key) == [counts EXCEPT ![key] = @ + 1]

\* faulty variant: the lookup finds a version, so that the cases run
browser_version_found(self) == [exc |-> NoExc, value |-> "1.0"]

\* h.browser_version: the attribute lookup on the harness object
browser_version(self) ==
    IF "browser_version" \in BrowserHarnessAttributes
    THEN [exc |-> NoExc, value |-> self.browser_version]
    ELSE [exc |-> Exc("AttributeError",
                      "'BrowserHarness' object has no attribute 'browser_version'"),
          value |-> None]

\* bool(t.fragment_context)
truthy(s) == s # None /\ s # <<>>

\* the rest of the body of `for idx, t in enumerate(tests)` once the backend
\* call r of a case without scripting has returned or raised: the try
\* statement from `rec["actual_tree"] = r.tree` on, with its handler
case_outcome(rec, t, r, call, no_compare) ==
    IF Raised(r.exc)
    THEN [self |-> r.self,
          rec |-> rec @@ [outcome |-> "error", error |-> format_exc(r.exc)],
          count |-> "error", calls |-> <<call>>]
    ELSE IF no_compare \/ t.expected_tree = None
    THEN [self |-> r.self,
          rec |-> (IF r.result.external_requests # <<>>
                   THEN rec @@ [actual_tree |-> r.result.tree,
                                external_requests |-> r.result.external_requests]
                   ELSE rec @@ [actual_tree |-> r.result.tree])
                  @@ [outcome |-> "recorded"],
          count |-> "none", calls |-> <<call>>]
    ELSE IF CompareOutcome(normalize_expected_tree(t.expected_tree),
                           normalize_expected_tree(r.result.tree)) = "pass"
    THEN [self |-> r.self,
          rec |-> (IF r.result.external_requests # <<>>
                   THEN rec @@ [actual_tree |-> r.result.tree,
                                external_requests |-> r.result.external_requests]
                   ELSE rec @@ [actual_tree |-> r.result.tree])
                  @@ [outcome |-> "pass"],
          count |-> "pass", calls |-> <<call>>]
    ELSE [self |-> r.self,
          rec |-> (IF r.result.external_requests # <<>>
                   THEN rec @@ [actual_tree |-> r.result.tree,
                                external_requests |-> r.result.external_requests]
                   ELSE rec @@ [actual_tree |-> r.result.tree])
                  @@ [outcome |-> "fail",
                      expected_tree |-> normalize_expected_tree(t.expected_tree)],
          count |-> "fail", calls |-> <<call>>]

\* the keyword arguments main passes to the backend for a case
call_kwargs(t) ==
    IF truthy(t.fragment_context)
    THEN [fragment_context |-> t.fragment_context, html |-> t.data]
    ELSE [html |-> t.data, scripting_enabled |-> t.scripting_enabled]

\* the backend call main makes for a case without scripting
backend_call(self, t, ev) ==
    IF truthy(t.fragment_context) THEN run_fragment(self, call_kwargs(t), ev)
    ELSE run_document(self, call_kwargs(t), ev)

\* the entry of the call log for that call
call_entry(self, t) ==
    [browser |-> self.browser_name,
     op |-> IF truthy(t.fragment_context) THEN "run_fragment" ELSE "run_document",
     kwargs |-> call_kwargs(t),
     source_file |-> t.source_file,
     index |-> t.index]

\* rec as the loop body first builds it
case_record(self, t) ==
    [browser |-> self.browser_name,
     browser_version |-> browser_version(self).value,
     source_file |-> t.source_file,
     index |-> t.index,
     fragment_context |-> t.fragment_context,
     scripting_enabled |-> t.scripting_enabled]

\* the body of `for idx, t in enumerate(tests)` for one case: the harness
\* after it, the record appended to results, the counter incremented
\* ("none" for outcome recorded) and the backend calls made
run_case(self, t, ev, no_compare) ==
    IF t.scripting_enabled
    THEN [self |-> self,
          rec |-> case_record(self, t)
                    @@ [outcome |-> "skip", skip_reason |-> "scripting_enabled"],
          count |-> "skip", calls |-> <<>>]
    ELSE case_outcome(case_record(self, t), t, backend_call(self, t, ev),
                      call_entry(self, t), no_compare)

\* results.append(rec) and the counter of the case
case_done(acc, c) ==
    [self |-> c.self,
     recs |-> Append(acc.recs, c.rec),
     counts |-> IF c.count = "none" THEN acc.counts ELSE Bump(acc.counts, c.count),
     calls |-> acc.calls \o c.calls]

\* `for idx, t in enumerate(tests)` from idx on (idx counts from 0), with
\* `if limit and idx >= limit: break`; page[i] is the behaviour of the page
\* for the i-th case
RECURSIVE run_cases(_, _, _, _, _, _)
run_cases(acc, ts, idx, cap, page, no_compare) ==
    IF idx >= Len(ts) \/ (cap # 0 /\ idx >= cap) THEN acc
    ELSE run_cases(case_done(acc, run_case(acc.self, ts[idx + 1], page[idx + 1], no_compare)),
                   ts, idx + 1, cap, page, no_compare)

\* the with body after the loop ended without an exception
body_done(ran) ==
    [self |-> ran.self, recs |-> ran.recs, counts |-> ran.counts, calls |-> ran.calls,
     version_set |-> TRUE, exc |-> NoExc]

\* the body of `with BrowserHarness(...) as h:`: the version is stored, then
\* the cases run.  version_set tells whether browser_versions[browser] was
\* assigned, exc is the exception that left the body.
with_body(self, ts, cap, page, no_compare) ==
    IF Raised(browser_version(self).exc)
    THEN [self |-> self, recs |-> <<>>, counts |-> ZeroCounts, calls |-> <<>>,
          version_set |-> FALSE, exc |-> browser_version(self).exc]
    ELSE body_done(run_cases([self |-> self, recs |-> <<>>, counts |-> ZeroCounts,
                              calls |-> <<>>],
                             ts, 0, cap, page, no_compare))

\* __exit__ has run after the body: an exception of __exit__ replaces the
\* one of the body
with_exit(body, left) ==
    [body EXCEPT !.self = left.self,
                 !.exc = IF Raised(left.exc) THEN left.exc ELSE body.exc]

\* the with statement once the body has ended: __exit__ runs however the
\* body ended
with_leave(body, shut) == with_exit(body, harness_exit(body.self, shut))

\* the with statement once __enter__ has returned or raised: when it
\* raised, neither the body nor __exit__ runs
with_entered(entered, shut, ts, cap, page, no_compare) ==
    IF Raised(entered.exc)
    THEN [self |-> entered.self, recs |-> <<>>, counts |-> ZeroCounts, calls |-> <<>>,
          version_set |-> FALSE, exc |-> entered.exc]
    ELSE with_leave(with_body(entered.self, ts, cap, page, no_compare), shut)

\* `with BrowserHarness(browser=browser, headless=True) as h:`
with_harness(browser, launch, shut, ts, cap, page, no_compare) ==
    with_entered(harness_enter(BrowserHarness(browser), launch), shut, ts, cap, page,
                 no_compare)

\* faulty variant: the record names a version the backend never reported
LaunchErrorRecord_unknown_version(browser, version, exc) ==
    [browser |-> browser,
     browser_version |-> "unknown",
     outcome |-> "error",
     error |-> format_exc(exc),
     source_file |-> None,
     index |-> None,
     fragment_context |-> None,
     scripting_enabled |-> None]

\* faulty variant: the record also carries an expected tree
LaunchErrorRecord_with_expected_tree(browser, version, exc) ==
    [browser |-> browser,
     browser_version |-> version,
     outcome |-> "error",
     error |-> format_exc(exc),
     expected_tree |-> <<>>,
     source_file |-> None,
     index |-> None,
     fragment_context |-> None,
     scripting_enabled |-> None]

\* the record appended by `except Exception as exc:` of the backend loop
LaunchErrorRecord(browser, version, exc) ==
    [browser |-> browser,
     browser_version |-> version,
     outcome |-> "error",
     error |-> format_exc(exc),
     source_file |-> None,
     index |-> None,
     fragment_context |-> None,
     scripting_enabled |-> None]

\* faulty variant: the error counters are not looked at
ExitCode_fail_only(browsers_, summary_, no_compare) ==
    IF ~no_compare /\ \E i \in 1..Len(browsers_) : summary_[browsers_[i]].fail # 0 THEN 3
    ELSE 0

\* the exit code of main after the backend loop
ExitCode(browsers_, summary_, no_compare) ==
    IF \E i \in 1..Len(browsers_) : summary_[browsers_[i]].error # 0 THEN 2
    ELSE IF ~no_compare /\ \E i \in 1..Len(browsers_) : summary_[browsers_[i]].fail # 0 THEN 3
    ELSE 0

\* ------------------------------------------------------------------------
\* Specification of the orchestrator: one run of main
\* ------------------------------------------------------------------------
MaxCap == 1          \* largest value of --max-tests

K_out_json == <<111, 117, 116>>                         \* "out"

\* the behaviours of the page for one evaluation
U_http == K_http \o F_a                                 \* "http://a"
U_https == K_https \o F_a                               \* "https://a"
U_file == <<102, 105, 108, 101, 58, 47, 47, 47, 97>>    \* "file:///a"
Evaluations ==
    {[fetches |-> <<>>, raises |-> FALSE, value |-> F_a],
     [fetches |-> <<U_http>>, raises |-> FALSE, value |-> None],
     [fetches |-> <<U_https, U_file>>, raises |-> TRUE, value |-> None]}

PathLists ==
    {<<"empty_dat">>, <<"bad_dat">>, <<"notree_dat">>, <<"script_dat", "doc_dat", "frag_dat">>}

\* the command lines: paths, --browser, --json-out, --max-tests, --no-compare
\* (--print-errors, --print-fails and --max-diff-lines only change what is
\* printed)
Namespaces ==
    [paths : PathLists,
     browser : {"chromium", "firefox", "webkit", "all"},
     json_out : {None, K_out_json},
     max_tests : -1..MaxCap,
     no_compare : BOOLEAN]

PlaywrightVersions == {"1.49.0"}
Durations == {3}

Init ==
    /\ ns \in Namespaces
    /\ rpc = "start"
    /\ browsers = <<>>
    /\ playwright_version = ""
    /\ limit = 0
    /\ results = <<>>
    /\ summary = <<>>
    /\ browser_versions = <<>>
    /\ browser_launch_errors = <<>>
    /\ bi = 0
    /\ out_obj = <<>>
    /\ json_file = <<>>
    /\ exit_code = <<>>
    /\ harnesses = <<>>
    /\ calls = <<>>
    /\ ParseIdle
    /\ FileIdle
    /\ CompareIdle
    /\ HarnessIdle

\* main after `tests = _load_tests(ns.paths)`: `return 1` without cases,
\* else the state of the run is set up
Loaded(ts) ==
    /\ tests' = ts
    /\ IF ts = <<>>
       THEN /\ exit_code' = <<1>>
            /\ rpc' = "done"
            /\ UNCHANGED <<browsers, playwright_version, limit, summary, bi>>
       ELSE /\ browsers' = browsers_from_arg(ns.browser)
            /\ playwright_version' \in PlaywrightVersions
            /\ summary' = [b \in {browsers_from_arg(ns.browser)[i] :
                                    i \in 1..Len(browsers_from_arg(ns.browser))}
                             |-> ZeroCounts]
            /\ limit' = ns.max_tests
            /\ bi' = 1
            /\ rpc' = "loop"
            /\ UNCHANGED exit_code

\* main up to the backend loop
Start ==
    /\ rpc = "start"
    /\ load_tests(ns.paths).ok
    /\ Loaded(load_tests(ns.paths).tests)
    /\ UNCHANGED <<ns, results, browser_versions, browser_launch_errors, out_obj, json_file,
                   harnesses, calls>>
    /\ UNCHANGED <<fixture, text, ppc, fileVars, compareVars, harnessVars>>

\* the exception of a fixture file that cannot be decoded leaves main
StartRaises ==
    /\ rpc = "start"
    /\ ~load_tests(ns.paths).ok
    /\ rpc' = "raised"
    /\ UNCHANGED <<ns, browsers, playwright_version, limit, results, summary,
                   browser_versions, browser_launch_errors, bi, out_obj, json_file,
                   exit_code, harnesses, calls>>
    /\ UNCHANGED <<parseVars, fileVars, compareVars, harnessVars>>

\* browser_versions after the with statement w of a backend
versions_after(versions, browser, w) ==
    IF w.version_set THEN Put(versions, browser, browser_version(w.self).value)
    ELSE versions

\* faulty variant: the records of the backend are put in front of the
\* records of the backends before it
BackendDone_prepend(browser, w) ==
    /\ harnesses' = Append(harnesses, w.self)
    /\ calls' = calls \o w.calls
    /\ IF Raised(w.exc)
       THEN /\ browser_versions' =
                   setdefault(versions_after(browser_versions, browser, w), browser, "")
            /\ browser_launch_errors' = Put(browser_launch_errors, browser, format_exc(w.exc))
            /\ summary' = [summary EXCEPT ![browser] = Bump(w.counts, "error")]
            /\ results' = w.recs
                   \o <<LaunchErrorRecord(browser,
                          setdefault(versions_after(browser_versions, browser, w),
                                     browser, "")[browser],
                          w.exc)>>
                   \o results
       ELSE /\ browser_versions' = versions_after(browser_versions, browser, w)
            /\ summary' = [summary EXCEPT ![browser] = w.counts]
            /\ results' = w.recs \o results
            /\ UNCHANGED browser_launch_errors

\* the end of one iteration of `for browser in browsers`, w being what the
\* with statement did: the results of the cases are kept and, when an
\* exception left the with statement, the handler runs
BackendDone(browser, w) ==
    /\ harnesses' = Append(harnesses, w.self)
    /\ calls' = calls \o w.calls
    /\ IF Raised(w.exc)
       THEN /\ browser_versions' =
                   setdefault(versions_after(browser_versions, browser, w), browser, "")
            /\ browser_launch_errors' = Put(browser_launch_errors, browser, format_exc(w.exc))
            /\ summary' = [summary EXCEPT ![browser] = Bump(w.counts, "error")]
            /\ results' = results \o w.recs
                   \o <<LaunchErrorRecord(browser,
                          setdefault(versions_after(browser_versions, browser, w),
                                     browser, "")[browser],
                          w.exc)>>
       ELSE /\ browser_versions' = versions_after(browser_versions, browser, w)
            /\ summary' = [summary EXCEPT ![browser] = w.counts]
            /\ results' = results \o w.recs
            /\ UNCHANGED browser_launch_errors

\* the environment is asked for the shutdown and for the evaluations only
\* when __enter__ returned
ExitsAfter(launch) == IF launch = "ok" THEN ExitOutcomes ELSE {"ok"}
PagesAfter(launch) ==
    IF launch = "ok" THEN [1..Len(tests) -> Evaluations]
    ELSE {[i \in 1..Len(tests) |-> CHOOSE ev \in Evaluations : ~ev.raises /\ ev.fetches = <<>>]}

\* faulty variant: the loop over the backends ends after its first iteration
RunBackend_abort ==
    /\ rpc = "loop"
    /\ bi <= Len(browsers)
    /\ \E launch \in LaunchOutcomes :
        \E shut \in ExitsAfter(launch), page \in PagesAfter(launch) :
        BackendDone(browsers[bi],
                    with_harness(browsers[bi], launch, shut, tests, limit, page, ns.no_compare))
    /\ bi' = Len(browsers) + 1
    /\ UNCHANGED <<ns, browsers, playwright_version, limit, out_obj, json_file, exit_code, rpc>>
    /\ UNCHANGED <<parseVars, fileVars, compareVars, harnessVars>>

\* one iteration of `for browser in browsers`: the try statement with the
\* with statement in it, and the handler of an exception that leaves it
RunBackend ==
    /\ rpc = "loop"
    /\ bi <= Len(browsers)
    /\ \E launch \in LaunchOutcomes :
        \E shut \in ExitsAfter(launch), page \in PagesAfter(launch) :
        BackendDone(browsers[bi],
                    with_harness(browsers[bi], launch, shut, tests, limit, page, ns.no_compare))
    /\ bi' = bi + 1
    /\ UNCHANGED <<ns, browsers, playwright_version, limit, out_obj, json_file, exit_code, rpc>>
    /\ UNCHANGED <<parseVars, fileVars, compareVars, harnessVars>>

\* meta of the report object
report_meta ==
    [browsers |-> browsers,
     browser_versions |-> browser_versions,
     browser_launch_errors |-> browser_launch_errors,
     playwright_version |-> playwright_version,
     paths |-> ns.paths,
     max_tests |-> limit,
     compare |-> ~ns.no_compare]

\* the report is written to ns.json_out if given; the elapsed time is
\* stored in the object after that
Written(obj, elapsed_s) ==
    IF ns.json_out # None
    THEN /\ json_file' = <<obj>>
         /\ out_obj' = [obj EXCEPT !.meta = @ @@ [elapsed_seconds |-> elapsed_s]]
    ELSE /\ json_file' = <<>>
         /\ out_obj' = obj

\* main after the backend loop: the report object is built and written,
\* and the exit code is returned
Report ==
    /\ rpc = "loop"
    /\ bi > Len(browsers)
    /\ \E elapsed_s \in Durations :
        Written([schema |-> "html5libtestsbench.results.v1", meta |-> report_meta,
                 summary |-> summary, results |-> results],
                elapsed_s)
    /\ exit_code' = <<ExitCode(browsers, summary, ns.no_compare)>>
    /\ rpc' = "done"
    /\ UNCHANGED <<ns, browsers, playwright_version, limit, results, summary,
                   browser_versions, browser_launch_errors, bi, harnesses, calls>>
    /\ UNCHANGED <<parseVars, fileVars, compareVars, harnessVars>>

Next == Start \/ StartRaises \/ RunBackend \/ Report

Spec == Init /\ [][Next]_vars

\* ------------------------------------------------------------------------
\* Claims about the orchestrator (checked under Spec)
\* ------------------------------------------------------------------------

\* the run has ended and had cases to run
RunEnded == rpc = "done" /\ tests # <<>>

\* the backends --browser selects, in order
SelectedOrder ==
    IF ns.browser = "all" THEN <<"chromium", "firefox", "webkit">> ELSE <<ns.browser>>

\* the result records of a backend, in order
BackendResults(b) == SelectSeq(results, LAMBDA r : r.browser = b)

\* the report names a launch error for the backend
HasLaunchError(b) == b \in DOMAIN browser_launch_errors

\* the records of the backend's cases: the synthetic record of a launch
\* error is the last record main appends for a backend
CaseResults(b) ==
    IF HasLaunchError(b) THEN SubSeq(BackendResults(b), 1, Len(BackendResults(b)) - 1)
    ELSE BackendResults(b)

\* __enter__ returned for this harness: only then __exit__ has run on it
Launched(hr) == hr.page = "page" /\ (hr.browser_instance = "closed" \/ hr.pw_cm = "exited")

\* the backends whose launch succeeded
LaunchedBackends ==
    {harnesses[i].browser_name : i \in {j \in 1..Len(harnesses) : Launched(harnesses[j])}}

\* the positions (from 1) of the loaded cases within the cap
InCap == {k \in 1..Len(tests) : limit = 0 \/ k <= limit}

\* the backend has a case record of the k-th loaded case with this outcome
HasResult(b, k, outcomes) ==
    \E j \in 1..Len(CaseResults(b)) :
        /\ CaseResults(b)[j].source_file = tests[k].source_file
        /\ CaseResults(b)[j].index = tests[k].index
        /\ CaseResults(b)[j].outcome \in outcomes

\* the number of the backend's records with this outcome
CountOutcome(b, o) == Len(SelectSeq(BackendResults(b), LAMBDA r : r.outcome = o))

\* the backend was called for the k-th loaded case
CalledFor(b, k) ==
    \E j \in 1..Len(calls) :
        /\ calls[j].browser = b
        /\ calls[j].source_file = tests[k].source_file
        /\ calls[j].index = tests[k].index

\* C11: at the end of a run with a cap of 0 or more, every case within the
\* cap that has scripting enabled has, for every backend that launched, a
\* result with outcome skip, the skip counter of the backend counts these
\* cases, and the backend is called for none of them.
C11_ScriptingSkipped ==
    (RunEnded /\ limit >= 0) =>
        \A b \in LaunchedBackends :
            /\ \A k \in InCap :
                   tests[k].scripting_enabled => HasResult(b, k, {"skip"}) /\ ~CalledFor(b, k)
            /\ summary[b].skip = Cardinality({k \in InCap : tests[k].scripting_enabled})

C14_SyntheticIsOnlyResult ==
    \A b \in DOMAIN browser_launch_errors :
        /\ Len(BackendResults(b)) = 1
        /\ BackendResults(b)[1].outcome = "error"
        /\ BackendResults(b)[1].error = browser_launch_errors[b]
        /\ BackendResults(b)[1].browser_version = ""
        /\ browser_versions[b] = ""
        /\ \A j \in 1..Len(calls) : calls[j].browser # b

\* a launch error is reported for a backend whose launch succeeded, and
\* the report is complete
C14_Witness ==
    /\ RunEnded
    /\ \E b \in LaunchedBackends : HasLaunchError(b)
    /\ \E i \in 1..Len(harnesses) : ~Launched(harnesses[i])

\* C15: the harnesses main constructs are those of the selected backends in
\* the selected order, one each, and at the end of the run every selected
\* backend has had its harness, whatever launches failed.
C15_EveryBackendOnce ==
    /\ rpc \in {"loop", "done"} =>
           /\ Len(harnesses) <= Len(SelectedOrder)
           /\ \A i \in 1..Len(harnesses) : harnesses[i].browser_name = SelectedOrder[i]
    /\ RunEnded => Len(harnesses) = Len(SelectedOrder)

\* all three backends were attempted although the launch of the first and
\* of the second failed
C15_Witness ==
    /\ RunEnded
    /\ Len(harnesses) = 3
    /\ ~Launched(harnesses[1])
    /\ ~Launched(harnesses[2])
    /\ Launched(harnesses[3])

\* C16: at the end of a run, for each backend, each of the counters pass,
\* fail, error and skip equals the number of the backend's results with
\* that outcome (so a result with outcome recorded is in no counter).
C16_CountersMatchResults ==
    RunEnded =>
        \A b \in DOMAIN summary : \A key \in {"pass", "fail", "error", "skip"} :
            summary[b][key] = CountOutcome(b, key)

\* a run of all three backends has ended with counted results
C16_Witness ==
    /\ RunEnded
    /\ Len(results) = 3
    /\ \A b \in DOMAIN summary : summary[b].error = 1

\* C17: a run that loaded a case returns 2 if a backend has an error
\* counter other than 0, else 3 if comparison is enabled and a backend has a
\* fail counter other than 0, else 0.
C17_ExitCode ==
    RunEnded =>
        exit_code =
            <<IF \E b \in DOMAIN summary : summary[b].error # 0 THEN 2
              ELSE IF ~ns.no_compare /\ \E b \in DOMAIN summary : summary[b].fail # 0 THEN 3
              ELSE 0>>

\* a run with comparison enabled has returned 2
C17_Witness ==
    /\ RunEnded
    /\ ~ns.no_compare
    /\ exit_code = <<2>>
    /\ \E b \in DOMAIN summary : summary[b].error # 0

\* C18: at the end of a run, a backend that launched has, with a cap N > 0,
\* the results of the first N loaded cases (of all, if there are fewer), in
\* the order of the cases, and with cap 0 the results of all loaded cases.
C18_CapTakesFirstCases ==
    (RunEnded /\ limit >= 0) =>
        \A b \in LaunchedBackends :
            /\ Len(CaseResults(b)) = Cardinality(InCap)
            /\ \A j \in 1..Len(CaseResults(b)) :
                   /\ CaseResults(b)[j].source_file = tests[j].source_file
                   /\ CaseResults(b)[j].index = tests[j].index

\* C21: in every state of a run, a result record that has the key
\* expected_tree has outcome fail, and a result record that has the key
\* error has outcome error; the same holds of the records of the written
\* report.
C21_OptionalKeysMatchOutcome ==
    /\ \A i \in 1..Len(results) :
           /\ "expected_tree" \in DOMAIN results[i] => results[i].outcome = "fail"
           /\ "error" \in DOMAIN results[i] => results[i].outcome = "error"
    /\ \A f \in 1..Len(json_file) : \A i \in 1..Len(json_file[f].results) :
           /\ "expected_tree" \in DOMAIN json_file[f].results[i]
                => json_file[f].results[i].outcome = "fail"
           /\ "error" \in DOMAIN json_file[f].results[i]
                => json_file[f].results[i].outcome = "error"

\* a run has ended and written a report in which a record of a backend that
\* launched has the key error
C21_Witness ==
    /\ RunEnded
    /\ json_file # <<>>
    /\ \E i \in 1..Len(results) :
           /\ "error" \in DOMAIN results[i]
           /\ results[i].outcome = "error"
           /\ results[i].browser \in LaunchedBackends

\* the j-th record of the backend is the synthetic record of its launch
\* error: the last record of a backend for which the report names one
IsLaunchErrorRecord(b, j) ==
    /\ HasLaunchError(b)
    /\ j = Len(BackendResults(b))
    /\ BackendResults(b)[j].outcome = "error"
    /\ BackendResults(b)[j].error = browser_launch_errors[b]

EnteredHarness(b) == harness_enter(BrowserHarness(b), "ok").self

\* C23: for every loaded case without scripting, the call main makes for it
\* on an entered harness is accepted by the operation it names, so that it
\* raises only when the evaluation in the browser raises: run_document for a
\* case without fragment context, and run_fragment, with the context and
\* the markup of the case, for a case with one.
C23_RequestMatchesOperation ==
    rpc \in {"loop", "done"} =>
        \A k \in 1..Len(tests) : \A i \in 1..Len(browsers) : \A ev \in Evaluations :
            ~tests[k].scripting_enabled =>
                /\ Raised(backend_call(EnteredHarness(browsers[i]), tests[k], ev).exc)
                     => ev.raises
                /\ truthy(tests[k].fragment_context) =>
                       /\ call_entry(EnteredHarness(browsers[i]), tests[k]).op = "run_fragment"
                       /\ call_kwargs(tests[k]) =
                              [fragment_context |-> tests[k].fragment_context,
                               html |-> tests[k].data]
                /\ ~truthy(tests[k].fragment_context) =>
                       call_entry(EnteredHarness(browsers[i]), tests[k]).op = "run_document"

\* the release itself failed for the backend: close() or the exit of the
\* library's context raised in __exit__
ReleaseFailed(b) ==
    /\ HasLaunchError(b)
    /\ browser_launch_errors[b] \in {format_exc(Exc("Error", "close")),
                                     format_exc(Exc("Error", "stop"))}

\* C24: whenever main has left a backend, the driver and the browser
\* instance acquired for it are released (unless the release itself raised):
\* the library's context is not left entered and the browser instance is
\* not left open, whether the with statement ended normally, by an exception
\* of its body, or by an exception of the launch.
C24_ContextsReleased ==
    \A i \in 1..Len(harnesses) :
        ~ReleaseFailed(harnesses[i].browser_name) =>
            /\ harnesses[i].pw_cm # "entered"
            /\ harnesses[i].browser_instance # "open"

\* the records a step appends to results
Appended == SubSeq(results', Len(results) + 1, Len(results'))

\* the case records among them: all but the synthetic record, which a step
\* that reports a launch error appends last
AppendedCases ==
    IF DOMAIN browser_launch_errors' # DOMAIN browser_launch_errors
    THEN SubSeq(Appended, 1, Len(Appended) - 1)
    ELSE Appended

\* C25: results only changes by a step of the backend loop that appends
\* records of the current backend, which is the next selected backend in
\* order and whose harness the step has left; the case records it appends
\* are those of the first loaded cases, in the order of loading.  So the
\* records of a backend all stand before those of the next.
C25_BackendByBackend ==
    [][results' # results =>
          /\ rpc = "loop" /\ bi \in 1..Len(browsers) /\ bi' = bi + 1
          /\ browsers[bi] = SelectedOrder[bi]
          /\ Len(harnesses) = bi - 1
          /\ harnesses' = Append(harnesses, harnesses'[bi])
          /\ harnesses'[bi].browser_name = browsers[bi]
          /\ Len(results') > Len(results)
          /\ SubSeq(results', 1, Len(results)) = results
          /\ \A j \in 1..Len(Appended) : Appended[j].browser = browsers[bi]
          /\ \A j \in 1..Len(results) : results[j].browser # browsers[bi]
          /\ Len(AppendedCases) <= Len(tests)
          /\ \A j \in 1..Len(AppendedCases) :
                 /\ AppendedCases[j].source_file = tests[j].source_file
                 /\ AppendedCases[j].index = tests[j].index]_vars

\* a run of all three backends has ended with their records in the selected
\* order
C25_Witness ==
    /\ RunEnded
    /\ browsers = <<"chromium", "firefox", "webkit">>
    /\ Len(results) >= 3
    /\ results[1].browser = "chromium"
    /\ results[Len(results)].browser = "webkit"
    /\ \E j \in 2..(Len(results) - 1) : results[j].browser = "firefox"

\* C26: once the report has been written, the written document has the
\* elapsed time of the run in its metadata, and the report object is still
\* the document that was written.
C26_WrittenReportHasElapsedTime ==
    \A f \in 1..Len(json_file) :
        /\ "elapsed_seconds" \in DOMAIN json_file[f].meta
        /\ out_obj = json_file[f]

\* ------------------------------------------------------------------------
\* Specification of the harness under a client: a BrowserHarness is
\* entered, asked for documents and fragments, and left
\* ------------------------------------------------------------------------
MaxFetches == 2      \* requests of the page during one evaluation

Urls == {U_http, U_https, U_file}
FetchLists == UNION {[1..n -> Urls] : n \in 0..MaxFetches}
HarnessEvaluations == [fetches : FetchLists, raises : BOOLEAN, value : {None, F_a}]

\* the keyword arguments of a client's call
DocumentKwargs == {[html |-> F_a], [html |-> F_a, scripting_enabled |-> FALSE]}
FragmentKwargs == {[fragment_context |-> F_div, html |-> F_a], [html |-> F_a]}

\* what a finished call gave its caller, whether the page was asked to
\* evaluate, the requests the page made during the call and what became of
\* each
Finished(op, r, ev) ==
    [op |-> op, exc |-> r.exc, result |-> r.result,
     evaluated |-> r.exc.type \notin {"TypeError", "RuntimeError"},
     attempted |-> IF r.exc.type \in {"TypeError", "RuntimeError"} THEN <<>> ELSE ev.fetches,
     verdicts |-> r.verdicts]

InitHarness ==
    /\ h \in {BrowserHarness(b) : b \in {"chromium", "firefox", "webkit"}}
    /\ hpc = "new"
    /\ last = [op |-> "none", exc |-> NoExc, result |-> None, evaluated |-> FALSE,
               attempted |-> <<>>, verdicts |-> <<>>]
    /\ ParseIdle
    /\ FileIdle
    /\ CompareIdle
    /\ RunIdle

\* __enter__ on a new harness
HEnter ==
    /\ hpc = "new"
    /\ \E launch \in LaunchOutcomes :
        /\ h' = harness_enter(h, launch).self
        /\ hpc' = IF Raised(harness_enter(h, launch).exc) THEN "failed" ELSE "entered"
        /\ last' = [op |-> "__enter__", exc |-> harness_enter(h, launch).exc,
                    result |-> None, evaluated |-> FALSE, attempted |-> <<>>,
                    verdicts |-> <<>>]
    /\ UNCHANGED <<parseVars, fileVars, compareVars, runVars>>

\* run_document, on a harness that was entered or not
HRunDocument ==
    /\ hpc \in {"new", "entered"}
    /\ \E kwargs \in DocumentKwargs, ev \in HarnessEvaluations :
        /\ h' = run_document(h, kwargs, ev).self
        /\ last' = Finished("run_document", run_document(h, kwargs, ev), ev)
    /\ UNCHANGED hpc
    /\ UNCHANGED <<parseVars, fileVars, compareVars, runVars>>

\* run_fragment, on a harness that was entered or not
HRunFragment ==
    /\ hpc \in {"new", "entered"}
    /\ \E kwargs \in FragmentKwargs, ev \in HarnessEvaluations :
        /\ h' = run_fragment(h, kwargs, ev).self
        /\ last' = Finished("run_fragment", run_fragment(h, kwargs, ev), ev)
    /\ UNCHANGED hpc
    /\ UNCHANGED <<parseVars, fileVars, compareVars, runVars>>

\* __exit__ on an entered harness
HExit ==
    /\ hpc = "entered"
    /\ \E shut \in ExitOutcomes :
        /\ h' = harness_exit(h, shut).self
        /\ last' = [op |-> "__exit__", exc |-> harness_exit(h, shut).exc,
                    result |-> None, evaluated |-> FALSE, attempted |-> <<>>,
                    verdicts |-> <<>>]
    /\ hpc' = "exited"
    /\ UNCHANGED <<parseVars, fileVars, compareVars, runVars>>

NextHarness == HEnter \/ HRunDocument \/ HRunFragment \/ HExit

SpecHarness == InitHarness /\ [][NextHarness]_vars

\* ------------------------------------------------------------------------
\* Claims about the harness (checked under SpecHarness)
\* ------------------------------------------------------------------------

\* the last call asked the page to evaluate
Evaluated == last.op \in {"run_document", "run_fragment"} /\ last.evaluated

\* the URL is one of http or https
IsHttp(url) == startswith(url, K_http) \/ startswith(url, K_https)

\* C19: the requests the harness recorded during an evaluation are handed to
\* the caller (who attaches them to the result of the case), whether the
\* evaluation returned or raised.
C19_RequestsReachCaller ==
    (Evaluated /\ h.external_network_requests # <<>>) =>
        /\ ~Raised(last.exc)
        /\ last.result.external_requests = h.external_network_requests

====
